---- MODULE Spec2Model ----
(***************************************************************************)
(* Worker pool and event dispatch core of the Shadow simulator             *)
(* (src/main/core/worker.c).  One coordinator thread (the Shadow main      *)
(* thread) and nWorkers worker threads running _worker_run.  The logical   *)
(* processor set (lps), the count-down latch (countdownlatch) and the      *)
(* thread-local round end time are collaborators whose code lives outside  *)
(* worker.c; they are modelled from their documented contracts.            *)
(***************************************************************************)
EXTENDS Integers, Sequences, FiniteSets, TLC

\* ------------------------------------------------------------------ bounds
MaxWorkers == 3
MaxParallel == 2
MaxTime == 1
MaxOfferWorkers == 2

\* Ordinary simulation times, and the sentinel above all of them.
Times == 0..MaxTime
SIMTIME_MAX == MaxTime + 1

\* The sentinel for "no current time", above SIMTIME_MAX.
SIMTIME_INVALID == SIMTIME_MAX + 1

\* Hosts of the simulation; a host's address id and its IP are its number.
MaxHosts == 2
Hosts == 0..(MaxHosts - 1)

\* An IP that no address is registered for.
UnknownIP == MaxHosts
IPs == Hosts \cup {UnknownIP}

\* Reliabilities and random draws are k / ProbSteps for k in 0..ProbSteps.
ProbSteps == 2
Probs == 0..ProbSteps

\* Path latencies are positive and given in units of which LatencyResolution
\* make up one nanosecond (a latency of k units is
\* k / (LatencyResolution * SIMTIME_ONE_MILLISECOND) milliseconds).
LatencyResolution == 2
Latencies == 1..(2 * LatencyResolution)

\* Nanoseconds per millisecond.
SIMTIME_ONE_MILLISECOND == 1000000

VARIABLES
    nWorkers,       \* pool->nWorkers
    nParallel,      \* the nParallel argument of workerpool_new
    cpc,            \* coordinator: position in workerpool_* calls
    ci,             \* coordinator: loop index (LP index or worker index)
    cw,             \* coordinator: worker id returned by the last pop
    inJoin,         \* coordinator: inside workerpool_joinAll
    pc,             \* per worker: position in _worker_run
    wTaskFn,        \* per worker: local `taskFn`
    wLpi,           \* per worker: local `lpi`
    wNext,          \* per worker: local `nextWorkerID`
    sems,           \* pool->workerBeginSems (counts)
    idxs,           \* pool->workerLogicalProcessorIdxs
    latch,          \* pool->finishLatch count
    taskFn,         \* pool->taskFn
    taskData,       \* pool->taskData
    joined,         \* pool->joined
    ready,          \* per LP: FIFO of ready workers
    done,           \* per LP: FIFO of done workers
    idleStopped,    \* per LP: idle timer is stopped
    minEventTimes,  \* pool->minEventTimes
    roundEndTime,   \* the round end time the workers compare against
    aborted,        \* the process aborted (utility_panic / utility_assert)
    \* history variables, read by the properties only
    execCount,      \* per worker: invocations of taskFn in the current round
    cdCount,        \* per worker: countDown calls since the last latch reset
    ranOn,          \* per worker: LP of its last donePush
    offeredMin,     \* least time offered with t >= roundEndTime since last scan
    nextEventTime,  \* value returned by the last getGlobalNextEventTime
    expectedTime,   \* offeredMin as it was when that call was made
    scanned,        \* getGlobalNextEventTime was called since the last round
    rescanned,      \* ... and it was called again right after
    filteredOffer,  \* the latest offer in this round was below roundEndTime
    \* CPU affinity of the worker threads
    workerNativeThreadIDs, \* pool->workerNativeThreadIDs
    threadCpu,      \* per worker: the CPU its thread is pinned to
    affinityCall,   \* the affinity_setProcessAffinity call of the latest step
    idleCalls,      \* per LP: idle-timer calls made since the last await
    \* event scheduling by the task a worker is running
    schedulerRunning, \* manager_schedulerIsRunning()
    currentTime,    \* the worker's current simulation time
    netCall,        \* the latest worker_sendPacket / worker_scheduleTask call
    pushed,         \* events that call handed to scheduler_push
    packetStatus,   \* delivery statuses that call added to its packet
    draws,          \* random_nextDouble calls that call made
    returned        \* what that call returned

poolVars == <<nWorkers, nParallel, cpc, ci, cw, inJoin, pc, wTaskFn, wLpi, wNext,
          sems, idxs, latch, taskFn, taskData, joined, ready, done,
          idleStopped, minEventTimes, roundEndTime, execCount,
          cdCount, ranOn, offeredMin, nextEventTime, expectedTime, scanned,
          rescanned, filteredOffer, workerNativeThreadIDs, threadCpu,
          affinityCall, idleCalls>>

netVars == <<schedulerRunning, currentTime, netCall, pushed, packetStatus,
             draws, returned>>

vars == <<poolVars, aborted, netVars>>

coordVars == <<cpc, ci, cw, inJoin>>
histVars == <<execCount, cdCount, ranOn, offeredMin, nextEventTime,
              expectedTime, scanned, rescanned, filteredOffer>>

\* ---------------------------------------------------------------- helpers
Min(a, b) == IF a < b THEN a ELSE b

Workers == 0..(nWorkers - 1)

nLogicalProcessors_noMin == nWorkers

\* int nLogicalProcessors = MIN(nParallel, nWorkers);
nLogicalProcessors == Min(nParallel, nWorkers)

LPs == 0..(nLogicalProcessors - 1)

\* -------------------------------------------------- logical processor set
\* lps_readyPush / lps_donePush: append to the LP's queue.
lps_readyPush(q, i, w) == [q EXCEPT ![i] = Append(@, w)]

lps_donePush(q, i, w) == [q EXCEPT ![i] = Append(@, w)]

\* lps_popWorkerToRunOn(i): the LPs a worker may be taken from.  The LP's own
\* ready queue if it is non-empty, otherwise any other non-empty ready queue.
lps_popSources(i) ==
    IF ready[i] # <<>> THEN {i}
    ELSE {j \in LPs : ready[j] # <<>>}

\* lps_finishTask: every LP's done queue becomes its ready queue again.
lps_finishTask(rq, dq) == [i \in LPs |-> rq[i] \o dq[i]]

\* -------------------------------------------------------- count-down latch
\* countdownlatch_countDown: panics when the count is already zero.
countdownlatch_countDown(c) == IF c = 0 THEN -1 ELSE c - 1

\* .finishLatch = countdownlatch_new(nWorkers): the latch's initial count.
finishLatchCount_lps == nLogicalProcessors

finishLatchCount == nWorkers

\* countdownlatch_reset: re-arms to the initial count.
countdownlatch_reset == finishLatchCount

\* ------------------------------------------------------------------- Init
\* The state when workerpool_new has created the threads, for a pool of n
\* workers and parallelism p.
\* ------------------------------------------------------- event scheduling
\* ceil of the rational num / den, den > 0.
Ceil(num, den) == (num + den - 1) \div den

\* worker_resolveIPToAddress: the address registered for ip, or NULL (-1).
worker_resolveIPToAddress(ip) == IF ip \in Hosts THEN ip ELSE -1

IsNullAddress(address) == address = -1

\* scheduler_getHost(scheduler, address_getID(address)).
scheduler_getHost(address) == address

\* if (bootstrapping || chance <= reliability ||
\*     packet_getPayloadLength(packet) == 0)
sendPacket_delivers(bootstrapping, chance, reliability, payloadLength) ==
    bootstrapping \/ chance <= reliability \/ payloadLength = 0

sendPacket_delay_truncated(latency) ==
    (latency * SIMTIME_ONE_MILLISECOND)
        \div (LatencyResolution * SIMTIME_ONE_MILLISECOND)

\* SimulationTime delay = (SimulationTime)ceil(latency * SIMTIME_ONE_MILLISECOND);
\* latency is a number of units, so the product is a number of nanoseconds
\* over LatencyResolution * SIMTIME_ONE_MILLISECOND.
sendPacket_delay(latency) ==
    Ceil(latency * SIMTIME_ONE_MILLISECOND,
         LatencyResolution * SIMTIME_ONE_MILLISECOND)

sendPacket_event_toSource(deliverTime, srcHost, dstHost) ==
    [time |-> deliverTime, src |-> srcHost, dst |-> srcHost]

\* event_new_(packetTask, deliverTime, srcHost, dstHost)
sendPacket_event(deliverTime, srcHost, dstHost) ==
    [time |-> deliverTime, src |-> srcHost, dst |-> dstHost]

scheduleTask_gate_open(running) == TRUE

\* if (!manager_schedulerIsRunning(...)) return FALSE;   (worker_scheduleTask)
scheduleTask_gate(running) == running

\* event_new_(task, clock_now + nanoDelay, host, host)
scheduleTask_event(clock_now, nanoDelay, host) ==
    [time |-> clock_now + nanoDelay, src |-> host, dst |-> host]

\* The calls a task can make: the arguments of the call and the answers its
\* collaborators give.  now and running are filled in when the call is made.
NoNetCall ==
    [op |-> "none", host |-> 0, srcIP |-> 0, dstIP |-> 0, payloadLength |-> 0,
     bootstrapping |-> FALSE, reliability |-> 0, chance |-> 0, latency |-> 1,
     nanoDelay |-> 0, accepted |-> FALSE, now |-> 0, running |-> FALSE]

SendPacketCalls ==
    {[NoNetCall EXCEPT !.op = "sendPacket", !.host = srcHost, !.srcIP = srcIP,
                       !.dstIP = dstIP, !.payloadLength = payloadLength,
                       !.bootstrapping = bootstrapping,
                       !.reliability = reliability, !.chance = chance,
                       !.latency = latency] :
        srcHost \in Hosts, srcIP \in IPs, dstIP \in IPs,
        payloadLength \in 0..1, bootstrapping \in BOOLEAN,
        reliability \in Probs, chance \in Probs, latency \in Latencies}

ScheduleTaskCalls ==
    {[NoNetCall EXCEPT !.op = "scheduleTask", !.host = host,
                       !.nanoDelay = nanoDelay, !.accepted = accepted] :
        host \in Hosts, nanoDelay \in Times, accepted \in BOOLEAN}

\* No task calls into event scheduling.
NetIdle ==
    /\ schedulerRunning = TRUE
    /\ currentTime = SIMTIME_INVALID
    /\ netCall = NoNetCall
    /\ pushed = <<>>
    /\ packetStatus = {}
    /\ draws = 0
    /\ returned = "none"

\* ----------------------------------------------------------- CPU affinity
\* "No CPU yet" for affinity_setProcessAffinity.
AFFINITY_UNINIT == -1

\* lps_cpuId: the CPU that logical processor i is bound to.
lps_cpuId(i) == i + 1

\* syscall(SYS_gettid) in worker thread w: positive and unique.
gettid(w) == w + 1

\* No affinity_setProcessAffinity call.
NoAffinityCall ==
    [workerID |-> -1, logicalProcessorIdx |-> -1, tid |-> 0,
     newCpuId |-> AFFINITY_UNINIT, oldCpuId |-> AFFINITY_UNINIT]

setLogicalProcessorIdx_affinityCall_oldAfterStore(ix, tids, workerID, logicalProcessorIdx) ==
    [workerID |-> workerID,
     logicalProcessorIdx |-> logicalProcessorIdx,
     tid |-> tids[workerID],
     newCpuId |-> lps_cpuId(logicalProcessorIdx),
     oldCpuId |-> lps_cpuId(logicalProcessorIdx)]

\* _workerpool_setLogicalProcessorIdx: the arguments it gives to
\* affinity_setProcessAffinity, ix being the indexes before its store.
setLogicalProcessorIdx_affinityCall(ix, tids, workerID, logicalProcessorIdx) ==
    [workerID |-> workerID,
     logicalProcessorIdx |-> logicalProcessorIdx,
     tid |-> tids[workerID],
     newCpuId |-> lps_cpuId(logicalProcessorIdx),
     oldCpuId |-> IF ix[workerID] >= 0
                  THEN lps_cpuId(ix[workerID])
                  ELSE AFFINITY_UNINIT]

\* affinity_setProcessAffinity(tid, newCpuId, oldCpuId): pins the thread
\* whose native id is tid to newCpuId.
affinity_setProcessAffinity(cpus, call) ==
    [x \in DOMAIN cpus |->
        IF gettid(x) = call.tid THEN call.newCpuId ELSE cpus[x]]

\* The part of _workerpool_setLogicalProcessorIdx after the store.
setProcessAffinity(workerID, logicalProcessorIdx) ==
    LET call == setLogicalProcessorIdx_affinityCall(
                    idxs, workerNativeThreadIDs, workerID, logicalProcessorIdx)
    IN  /\ affinityCall' = call
        /\ threadCpu' = affinity_setProcessAffinity(threadCpu, call)
        /\ UNCHANGED workerNativeThreadIDs

\* A step that does not call _workerpool_setLogicalProcessorIdx.
NoAffinity ==
    /\ affinityCall' = NoAffinityCall
    /\ UNCHANGED <<workerNativeThreadIDs, threadCpu>>

InitPool(n, p) ==
    /\ workerNativeThreadIDs = [w \in 0..(n - 1) |-> 0]
    /\ threadCpu = [w \in 0..(n - 1) |-> AFFINITY_UNINIT]
    /\ affinityCall = NoAffinityCall
    /\ idleCalls = [i \in 0..(Min(p, n) - 1) |-> <<>>]
    /\ nWorkers = n
    /\ nParallel = p
    /\ cpc = "new_await"
    /\ ci = 0
    /\ cw = -1
    /\ inJoin = FALSE
    /\ pc = [w \in Workers |-> "start"]
    /\ wTaskFn = [w \in Workers |-> "NULL"]
    /\ wLpi = [w \in Workers |-> -1]
    /\ wNext = [w \in Workers |-> -1]
    /\ sems = [w \in Workers |-> 0]
    /\ idxs = [w \in Workers |-> 0]
    /\ latch = finishLatchCount
    /\ taskFn = "NULL"
    /\ taskData = "NULL"
    /\ joined = FALSE
    /\ ready = [i \in LPs |-> <<>>]
    /\ done = [i \in LPs |-> <<>>]
    /\ idleStopped = [i \in LPs |-> FALSE]
    /\ minEventTimes = [i \in LPs |-> SIMTIME_MAX]
    /\ roundEndTime = 0
    /\ aborted = FALSE
    /\ execCount = [w \in Workers |-> 0]
    /\ cdCount = [w \in Workers |-> 0]
    /\ ranOn = [w \in Workers |-> -1]
    /\ offeredMin = SIMTIME_MAX
    /\ nextEventTime = SIMTIME_MAX
    /\ expectedTime = SIMTIME_MAX
    /\ scanned = FALSE
    /\ rescanned = FALSE
    /\ filteredOffer = FALSE

\* lps_idleTimerStop / lps_idleTimerContinue: the idle timer of LP i is
\* stopped / runs again.
lps_idleTimerStop(stopped, i) == [stopped EXCEPT ![i] = TRUE]
lps_idleTimerContinue(stopped, i) == [stopped EXCEPT ![i] = FALSE]

\* ------------------------------------------------------------ pool helpers
workerpool_new_lpi_first(workerID) == 0

\* int lpi = workerID % nLogicalProcessors;   (workerpool_new)
workerpool_new_lpi(workerID) == workerID % nLogicalProcessors

\* for (int workerID = 0; workerID < nWorkers; ++workerID)   (workerpool_new)
workerpool_new_loopEnd_lps == nLogicalProcessors

workerpool_new_loopEnd == nWorkers

workerpool_setLogicalProcessorIdx_home(ix, workerID, logicalProcessorIdx) ==
    [ix EXCEPT ![workerID] = workerID % nLogicalProcessors]

\* _workerpool_setLogicalProcessorIdx: records the worker's LP index.
workerpool_setLogicalProcessorIdx(ix, workerID, logicalProcessorIdx) ==
    [ix EXCEPT ![workerID] = logicalProcessorIdx]

scanMinTime_lastSlot(met, i, minTime) ==
    IF nLogicalProcessors > 0 THEN met[nLogicalProcessors - 1] ELSE minTime

\* The scan of workerpool_getGlobalNextEventTime over slots i..n-1, starting
\* from the running minimum minTime.
RECURSIVE scanMinTime(_, _, _)
scanMinTime(met, i, minTime) ==
    IF i >= nLogicalProcessors THEN minTime
    ELSE scanMinTime(met, i + 1, IF met[i] < minTime THEN met[i] ELSE minTime)

\* The slot update of worker_setMinEventTimeNextRound, after the round filter.
setMinSlot(met, lpi, simtime) ==
    IF simtime < met[lpi] THEN [met EXCEPT ![lpi] = simtime] ELSE met

isFiltered_inclusive(simtime, endTime) == simtime <= endTime

\* The round filter of worker_setMinEventTimeNextRound.
isFiltered(simtime, endTime) == simtime < endTime

worker_run_loopTarget_forever(fn) == "wait"

\* do { ... } while (taskFn != NULL): where _worker_run goes after countDown.
worker_run_loopTarget(fn) == IF fn # "NULL" THEN "wait" ELSE "exited"

worker_run_lpi_home(ix, threadID) == workerpool_new_lpi(threadID)

\* int lpi = workerPool->workerLogicalProcessorIdxs[threadID];   (_worker_run)
worker_run_lpi(ix, threadID) == ix[threadID]

worker_run_semPost_lost(s, nextWorkerID) == s

\* sem_post(&workerPool->workerBeginSems[nextWorkerID])   (_worker_run)
worker_run_semPost(s, nextWorkerID) == [s EXCEPT ![nextWorkerID] = @ + 1]

\* sem_post(&pool->workerBeginSems[workerID])   (_workerpool_startTaskFn)
startTaskFn_semPost(s, workerID) == [s EXCEPT ![workerID] = @ + 1]

\* ------------------------------------------------------------ coordinator
\* workerpool_new: countdownlatch_await + countdownlatch_reset.
workerpool_new_await ==
    /\ ~aborted
    /\ cpc = "new_await"
    /\ latch = 0
    /\ latch' = countdownlatch_reset
    /\ cdCount' = [w \in Workers |-> 0]
    /\ cpc' = "new_assign"
    /\ ci' = 0
    /\ UNCHANGED <<nWorkers, nParallel, cw, inJoin, pc, wTaskFn, wLpi, wNext,
                   sems, idxs, taskFn, taskData, joined, ready, done,
                   idleStopped, minEventTimes, roundEndTime, aborted,
                   execCount, ranOn, offeredMin, nextEventTime, expectedTime,
                   scanned, rescanned, filteredOffer>>
    /\ UNCHANGED netVars
    /\ NoAffinity
    /\ UNCHANGED idleCalls

\* workerpool_new: one iteration of the loop that assigns workers to LPs.
workerpool_new_assign ==
    /\ ~aborted
    /\ cpc = "new_assign"
    /\ ci < workerpool_new_loopEnd
    /\ LET lpi == workerpool_new_lpi(ci) IN
        /\ ready' = lps_readyPush(ready, lpi, ci)
        /\ idxs' = workerpool_setLogicalProcessorIdx(idxs, ci, lpi)
        /\ setProcessAffinity(ci, lpi)
    /\ IF ci + 1 < workerpool_new_loopEnd
       THEN /\ ci' = ci + 1
            /\ cpc' = cpc
       ELSE /\ ci' = 0
            /\ cpc' = "idle"
    /\ UNCHANGED <<nWorkers, nParallel, cw, inJoin, pc, wTaskFn, wLpi, wNext,
                   sems, latch, taskFn, taskData, joined, done, idleStopped,
                   minEventTimes, roundEndTime, aborted>>
    /\ UNCHANGED histVars
    /\ UNCHANGED netVars
    /\ UNCHANGED idleCalls

\* _workerpool_startTaskFn without its utility_assert(pool->taskFn == NULL):
\* the slots are overwritten whatever they hold.
startTaskFn_store_noAssert(fn, data) ==
    /\ taskFn' = fn
    /\ taskData' = data
    /\ cpc' = "dispatch_pop"
    /\ ci' = 0
    /\ UNCHANGED aborted
    /\ execCount' = [w \in Workers |-> 0]
    /\ scanned' = FALSE
    /\ rescanned' = FALSE
    /\ nextEventTime' = SIMTIME_MAX
    /\ expectedTime' = SIMTIME_MAX

\* _workerpool_startTaskFn up to the dispatch loop: the assertion that the
\* slot is empty comes first, then the task is stored.
startTaskFn_store(fn, data) ==
    IF taskFn # "NULL"
    THEN /\ aborted' = TRUE
         /\ UNCHANGED <<taskFn, taskData, cpc, ci, execCount, scanned,
                        rescanned, nextEventTime, expectedTime>>
    ELSE /\ taskFn' = fn
         /\ taskData' = data
         /\ cpc' = "dispatch_pop"
         /\ ci' = 0
         /\ UNCHANGED aborted
         /\ execCount' = [w \in Workers |-> 0]
         /\ scanned' = FALSE
         /\ rescanned' = FALSE
         /\ nextEventTime' = SIMTIME_MAX
         /\ expectedTime' = SIMTIME_MAX

\* workerpool_startTaskFn, the public entry (taskFn non-null), for a round
\* whose end time is one of endTimes.  The round end time the task will
\* compare against is fixed here.
workerpool_startTaskFn_at(endTimes) ==
    /\ ~aborted
    /\ cpc = "idle"
    /\ \E endTime \in endTimes :
        /\ roundEndTime' = endTime
        /\ startTaskFn_store("f", "data")
    /\ UNCHANGED <<nWorkers, nParallel, cw, inJoin, pc, wTaskFn, wLpi, wNext,
                   sems, idxs, latch, joined, ready, done, idleStopped,
                   minEventTimes, cdCount, ranOn, offeredMin, filteredOffer>>
    /\ UNCHANGED netVars
    /\ NoAffinity
    /\ UNCHANGED idleCalls

\* workerpool_startTaskFn for a round of tasks that offer event times.
workerpool_startTaskFn == workerpool_startTaskFn_at(Times)

\* workerpool_startTaskFn for a round of tasks that offer no event times and
\* so never look at the round end time.
workerpool_startTaskFn_noOffers == workerpool_startTaskFn_at({0})

\* workerpool_startTaskFn called again after a dispatch has returned and
\* before the matching workerpool_awaitTaskFn.
workerpool_startTaskFn_inFlight ==
    /\ ~aborted
    /\ cpc = "await"
    /\ ~inJoin
    /\ startTaskFn_store("g", "data2")
    /\ UNCHANGED <<nWorkers, nParallel, cw, inJoin, pc, wTaskFn, wLpi, wNext,
                   sems, idxs, latch, joined, ready, done, idleStopped,
                   minEventTimes, roundEndTime, cdCount, ranOn, offeredMin,
                   filteredOffer>>
    /\ UNCHANGED netVars
    /\ NoAffinity
    /\ UNCHANGED idleCalls

\* _workerpool_startTaskFn, dispatch loop: _workerpool_getNextWorkerFor-
\* LogicalProcessorIdx(pool, i), or the break when it returns -1.
startTaskFn_pop ==
    /\ ~aborted
    /\ cpc = "dispatch_pop"
    /\ IF lps_popSources(ci) = {}
       THEN /\ cpc' = "await"
            /\ ci' = 0
            /\ UNCHANGED <<cw, ready, idxs>>
            /\ NoAffinity
       ELSE \E from \in lps_popSources(ci) :
            /\ cw' = Head(ready[from])
            /\ ready' = [ready EXCEPT ![from] = Tail(@)]
            /\ idxs' = workerpool_setLogicalProcessorIdx(idxs, Head(ready[from]), ci)
            /\ setProcessAffinity(Head(ready[from]), ci)
            /\ cpc' = "dispatch_post"
            /\ UNCHANGED ci
    /\ UNCHANGED <<nWorkers, nParallel, inJoin, pc, wTaskFn, wLpi, wNext,
                   sems, latch, taskFn, taskData, joined, done, idleStopped,
                   minEventTimes, roundEndTime, aborted>>
    /\ UNCHANGED histVars
    /\ UNCHANGED netVars
    /\ UNCHANGED idleCalls

\* _workerpool_startTaskFn, dispatch loop: lps_idleTimerStop and sem_post.
startTaskFn_post ==
    /\ ~aborted
    /\ cpc = "dispatch_post"
    /\ idleStopped' = lps_idleTimerStop(idleStopped, ci)
    /\ idleCalls' = [idleCalls EXCEPT ![ci] = Append(@, "stop")]
    /\ sems' = startTaskFn_semPost(sems, cw)
    /\ cw' = -1
    /\ IF ci + 1 < nLogicalProcessors
       THEN /\ ci' = ci + 1
            /\ cpc' = "dispatch_pop"
       ELSE /\ ci' = 0
            /\ cpc' = "await"
    /\ UNCHANGED <<nWorkers, nParallel, inJoin, pc, wTaskFn, wLpi, wNext,
                   idxs, latch, taskFn, taskData, joined, ready, done,
                   minEventTimes, roundEndTime, aborted>>
    /\ UNCHANGED histVars
    /\ UNCHANGED netVars
    /\ NoAffinity

\* workerpool_awaitTaskFn without its countdownlatch_await.
workerpool_awaitTaskFn_noAwait ==
    /\ ~aborted
    /\ cpc = "await"
    /\ latch' = countdownlatch_reset
    /\ taskFn' = "NULL"
    /\ taskData' = "NULL"
    /\ ready' = lps_finishTask(ready, done)
    /\ done' = [i \in LPs |-> <<>>]
    /\ cpc' = IF inJoin THEN "join" ELSE "idle"
    /\ cdCount' = [w \in Workers |-> 0]
    /\ filteredOffer' = FALSE
    /\ UNCHANGED <<nWorkers, nParallel, ci, cw, inJoin, pc, wTaskFn, wLpi,
                   wNext, sems, idxs, joined, idleStopped, minEventTimes,
                   roundEndTime, aborted, execCount, ranOn, offeredMin,
                   nextEventTime, expectedTime, scanned, rescanned>>
    /\ UNCHANGED netVars
    /\ NoAffinity
    /\ idleCalls' = [i \in LPs |-> <<>>]

\* workerpool_awaitTaskFn.
workerpool_awaitTaskFn ==
    /\ ~aborted
    /\ cpc = "await"
    /\ latch = 0
    /\ latch' = countdownlatch_reset
    /\ taskFn' = "NULL"
    /\ taskData' = "NULL"
    /\ ready' = lps_finishTask(ready, done)
    /\ done' = [i \in LPs |-> <<>>]
    /\ cpc' = IF inJoin THEN "join" ELSE "idle"
    /\ cdCount' = [w \in Workers |-> 0]
    /\ filteredOffer' = FALSE
    /\ UNCHANGED <<nWorkers, nParallel, ci, cw, inJoin, pc, wTaskFn, wLpi,
                   wNext, sems, idxs, joined, idleStopped, minEventTimes,
                   roundEndTime, aborted, execCount, ranOn, offeredMin,
                   nextEventTime, expectedTime, scanned, rescanned>>
    /\ UNCHANGED netVars
    /\ NoAffinity
    /\ idleCalls' = [i \in LPs |-> <<>>]

\* workerpool_getGlobalNextEventTime, called between rounds.
workerpool_getGlobalNextEventTime ==
    /\ ~aborted
    /\ cpc = "idle"
    /\ nextEventTime' = scanMinTime(minEventTimes, 0, SIMTIME_MAX)
    /\ minEventTimes' = [i \in LPs |-> SIMTIME_MAX]
    /\ expectedTime' = offeredMin
    /\ offeredMin' = SIMTIME_MAX
    /\ scanned' = TRUE
    /\ rescanned' = scanned
    /\ UNCHANGED <<nWorkers, nParallel, cpc, ci, cw, inJoin, pc, wTaskFn,
                   wLpi, wNext, sems, idxs, latch, taskFn, taskData, joined,
                   ready, done, idleStopped, roundEndTime, aborted, execCount,
                   cdCount, ranOn, filteredOffer>>
    /\ UNCHANGED netVars
    /\ NoAffinity
    /\ UNCHANGED idleCalls

\* workerpool_joinAll: _workerpool_startTaskFn(pool, NULL, NULL).
workerpool_joinAll ==
    /\ ~aborted
    /\ cpc = "idle"
    /\ ~joined
    /\ inJoin' = TRUE
    /\ startTaskFn_store("NULL", "NULL")
    /\ UNCHANGED <<nWorkers, nParallel, cw, pc, wTaskFn, wLpi, wNext, sems,
                   idxs, latch, joined, ready, done, idleStopped,
                   minEventTimes, roundEndTime, cdCount, ranOn, offeredMin,
                   filteredOffer>>
    /\ UNCHANGED netVars
    /\ NoAffinity
    /\ UNCHANGED idleCalls

\* workerpool_joinAll: one pthread_join; after the last, joined = TRUE.
workerpool_joinAll_join ==
    /\ ~aborted
    /\ cpc = "join"
    /\ pc[ci] = "exited"
    /\ IF ci + 1 < nWorkers
       THEN /\ ci' = ci + 1
            /\ UNCHANGED <<cpc, joined, inJoin>>
       ELSE /\ ci' = 0
            /\ joined' = TRUE
            /\ inJoin' = FALSE
            /\ cpc' = "joined"
    /\ UNCHANGED <<nWorkers, nParallel, cw, pc, wTaskFn, wLpi, wNext, sems,
                   idxs, latch, taskFn, taskData, ready, done, idleStopped,
                   minEventTimes, roundEndTime, aborted>>
    /\ UNCHANGED histVars
    /\ UNCHANGED netVars
    /\ NoAffinity
    /\ UNCHANGED idleCalls

\* workerpool_free.
workerpool_free ==
    /\ ~aborted
    /\ cpc = "joined"
    /\ joined
    /\ cpc' = "freed"
    /\ UNCHANGED <<nWorkers, nParallel, ci, cw, inJoin, pc, wTaskFn, wLpi,
                   wNext, sems, idxs, latch, taskFn, taskData, joined, ready,
                   done, idleStopped, minEventTimes, roundEndTime, aborted>>
    /\ UNCHANGED histVars
    /\ UNCHANGED netVars
    /\ NoAffinity
    /\ UNCHANGED idleCalls

\* ---------------------------------------------------------------- workers
\* _worker_run, thread start-up: sem_init, workerLogicalProcessorIdxs = -1,
\* native thread id, thread-local Worker, countdownlatch_countDown.
worker_run_start(w) ==
    /\ ~aborted
    /\ pc[w] = "start"
    /\ sems' = [sems EXCEPT ![w] = 0]
    /\ idxs' = [idxs EXCEPT ![w] = -1]
    /\ IF countdownlatch_countDown(latch) < 0
       THEN /\ aborted' = TRUE
            /\ UNCHANGED latch
       ELSE /\ latch' = countdownlatch_countDown(latch)
            /\ UNCHANGED aborted
    /\ cdCount' = [cdCount EXCEPT ![w] = @ + 1]
    /\ pc' = [pc EXCEPT ![w] = "wait"]
    /\ UNCHANGED <<nWorkers, nParallel, wTaskFn, wLpi, wNext, taskFn,
                   taskData, joined, ready, done, idleStopped, minEventTimes,
                   roundEndTime, execCount, ranOn, offeredMin, nextEventTime,
                   expectedTime, scanned, rescanned, filteredOffer>>
    /\ UNCHANGED coordVars
    /\ UNCHANGED netVars
    /\ workerNativeThreadIDs' = [workerNativeThreadIDs EXCEPT ![w] = gettid(w)]
    /\ affinityCall' = NoAffinityCall
    /\ UNCHANGED threadCpu
    /\ UNCHANGED idleCalls

worker_run_readTaskFn_notReread(poolFn, localFn) == localFn

\* taskFn = workerPool->taskFn;   (_worker_run, after sem_wait; localFn is
\* what the local held before)
worker_run_readTaskFn(poolFn, localFn) == poolFn

\* _worker_run: sem_wait returns, taskFn = workerPool->taskFn is read and,
\* when non-null, taskFn(taskData) is entered.
worker_run_wait(w) ==
    /\ ~aborted
    /\ pc[w] = "wait"
    /\ sems[w] > 0
    /\ sems' = [sems EXCEPT ![w] = @ - 1]
    /\ wTaskFn' = [wTaskFn EXCEPT
                        ![w] = worker_run_readTaskFn(taskFn, wTaskFn[w])]
    /\ execCount' = [execCount EXCEPT
                        ![w] = IF worker_run_readTaskFn(taskFn, wTaskFn[w]) # "NULL"
                               THEN @ + 1 ELSE @]
    /\ pc' = [pc EXCEPT ![w] = "task"]
    /\ UNCHANGED <<nWorkers, nParallel, wLpi, wNext, idxs, latch, taskFn,
                   taskData, joined, ready, done, idleStopped, minEventTimes,
                   roundEndTime, aborted, cdCount, ranOn, offeredMin,
                   nextEventTime, expectedTime, scanned, rescanned, filteredOffer>>
    /\ UNCHANGED coordVars
    /\ UNCHANGED netVars
    /\ NoAffinity
    /\ UNCHANGED idleCalls

\* worker_setMinEventTimeNextRound(simtime), called by worker w from inside
\* the task function.
worker_setMinEventTimeNextRound(w, simtime) ==
    /\ ~aborted
    /\ pc[w] = "task"
    /\ wTaskFn[w] # "NULL"
    /\ IF isFiltered(simtime, roundEndTime)
       THEN /\ UNCHANGED <<minEventTimes, offeredMin>>
            /\ filteredOffer' = TRUE
       ELSE /\ minEventTimes' = setMinSlot(minEventTimes, idxs[w], simtime)
            /\ offeredMin' = Min(offeredMin, simtime)
            /\ filteredOffer' = FALSE
    /\ UNCHANGED <<nWorkers, nParallel, pc, wTaskFn, wLpi, wNext, sems, idxs,
                   latch, taskFn, taskData, joined, ready, done, idleStopped,
                   roundEndTime, aborted, execCount, cdCount, ranOn,
                   nextEventTime, expectedTime, scanned, rescanned>>
    /\ UNCHANGED coordVars
    /\ UNCHANGED netVars
    /\ NoAffinity
    /\ UNCHANGED idleCalls

worker_run_donePush_toReady(w) ==
    /\ ~aborted
    /\ pc[w] = "task"
    /\ wLpi' = [wLpi EXCEPT ![w] = worker_run_lpi(idxs, w)]
    /\ ready' = lps_readyPush(ready, worker_run_lpi(idxs, w), w)
    /\ UNCHANGED done
    /\ ranOn' = [ranOn EXCEPT ![w] = worker_run_lpi(idxs, w)]
    /\ pc' = [pc EXCEPT ![w] = "pop"]
    /\ UNCHANGED <<nWorkers, nParallel, wTaskFn, wNext, sems, idxs, latch,
                   taskFn, taskData, joined, idleStopped,
                   minEventTimes, roundEndTime, aborted, execCount, cdCount,
                   offeredMin, nextEventTime, expectedTime, scanned, rescanned,
                   filteredOffer>>
    /\ UNCHANGED coordVars
    /\ UNCHANGED netVars
    /\ NoAffinity
    /\ UNCHANGED idleCalls

\* _worker_run: the task function has returned (or was null);
\* lpi = workerLogicalProcessorIdxs[threadID]; lps_donePush(lps, lpi, threadID).
worker_run_donePush(w) ==
    /\ ~aborted
    /\ pc[w] = "task"
    /\ wLpi' = [wLpi EXCEPT ![w] = worker_run_lpi(idxs, w)]
    /\ done' = lps_donePush(done, worker_run_lpi(idxs, w), w)
    /\ UNCHANGED ready
    /\ ranOn' = [ranOn EXCEPT ![w] = worker_run_lpi(idxs, w)]
    /\ pc' = [pc EXCEPT ![w] = "pop"]
    /\ UNCHANGED <<nWorkers, nParallel, wTaskFn, wNext, sems, idxs, latch,
                   taskFn, taskData, joined, idleStopped,
                   minEventTimes, roundEndTime, aborted, execCount, cdCount,
                   offeredMin, nextEventTime, expectedTime, scanned, rescanned,
                   filteredOffer>>
    /\ UNCHANGED coordVars
    /\ UNCHANGED netVars
    /\ NoAffinity
    /\ UNCHANGED idleCalls

\* _worker_run: nextWorkerID =
\* _workerpool_getNextWorkerForLogicalProcessorIdx(workerPool, lpi).
worker_run_pop(w) ==
    /\ ~aborted
    /\ pc[w] = "pop"
    /\ IF lps_popSources(wLpi[w]) = {}
       THEN /\ wNext' = [wNext EXCEPT ![w] = -1]
            /\ UNCHANGED <<ready, idxs>>
            /\ NoAffinity
       ELSE \E from \in lps_popSources(wLpi[w]) :
            /\ wNext' = [wNext EXCEPT ![w] = Head(ready[from])]
            /\ ready' = [ready EXCEPT ![from] = Tail(@)]
            /\ idxs' = workerpool_setLogicalProcessorIdx(
                            idxs, Head(ready[from]), wLpi[w])
            /\ setProcessAffinity(Head(ready[from]), wLpi[w])
    /\ pc' = [pc EXCEPT ![w] = "post"]
    /\ UNCHANGED <<nWorkers, nParallel, wTaskFn, wLpi, sems, latch, taskFn,
                   taskData, joined, done, idleStopped, minEventTimes,
                   roundEndTime, aborted>>
    /\ UNCHANGED histVars
    /\ UNCHANGED coordVars
    /\ UNCHANGED netVars
    /\ UNCHANGED idleCalls

worker_run_idleContinue_always(nextWorkerID) == TRUE

\* The else branch of if (nextWorkerID >= 0) in _worker_run: the LP is idle.
worker_run_idleContinue(nextWorkerID) == ~(nextWorkerID >= 0)

\* _worker_run: sem_post of the next worker, or lps_idleTimerContinue(lpi).
worker_run_post(w) ==
    /\ ~aborted
    /\ pc[w] = "post"
    /\ IF wNext[w] >= 0
       THEN sems' = worker_run_semPost(sems, wNext[w])
       ELSE UNCHANGED sems
    /\ IF worker_run_idleContinue(wNext[w])
       THEN /\ idleStopped' = lps_idleTimerContinue(idleStopped, wLpi[w])
            /\ idleCalls' = [idleCalls EXCEPT ![wLpi[w]] = Append(@, "continue")]
       ELSE UNCHANGED <<idleStopped, idleCalls>>
    /\ pc' = [pc EXCEPT ![w] = "countDown"]
    /\ UNCHANGED <<nWorkers, nParallel, wTaskFn, wLpi, wNext, idxs, latch,
                   taskFn, taskData, joined, ready, done, minEventTimes,
                   roundEndTime, aborted>>
    /\ UNCHANGED histVars
    /\ UNCHANGED coordVars
    /\ UNCHANGED netVars
    /\ NoAffinity

\* _worker_run: countdownlatch_countDown(finishLatch), then the loop test
\* while (taskFn != NULL).
worker_run_countDown(w) ==
    /\ ~aborted
    /\ pc[w] = "countDown"
    /\ IF countdownlatch_countDown(latch) < 0
       THEN /\ aborted' = TRUE
            /\ UNCHANGED latch
       ELSE /\ latch' = countdownlatch_countDown(latch)
            /\ UNCHANGED aborted
    /\ cdCount' = [cdCount EXCEPT ![w] = @ + 1]
    /\ pc' = [pc EXCEPT ![w] = worker_run_loopTarget(wTaskFn[w])]
    /\ wLpi' = [wLpi EXCEPT ![w] = -1]
    /\ wNext' = [wNext EXCEPT ![w] = -1]
    /\ UNCHANGED <<nWorkers, nParallel, wTaskFn, sems, idxs, taskFn, taskData,
                   joined, ready, done, idleStopped, minEventTimes,
                   roundEndTime, execCount, ranOn, offeredMin, nextEventTime,
                   expectedTime, scanned, rescanned, filteredOffer>>
    /\ UNCHANGED coordVars
    /\ UNCHANGED netVars
    /\ NoAffinity
    /\ UNCHANGED idleCalls

\* ------------------------------------------------------------------ system
CoordinatorSteps ==
    \/ workerpool_new_await
    \/ workerpool_new_assign
    \/ startTaskFn_pop
    \/ startTaskFn_post
    \/ workerpool_awaitTaskFn
    \/ workerpool_getGlobalNextEventTime
    \/ workerpool_joinAll
    \/ workerpool_joinAll_join
    \/ workerpool_free

Coordinator ==
    \/ workerpool_startTaskFn
    \/ CoordinatorSteps

\* The steps of _worker_run itself.
WorkerProgress(w) ==
    \/ worker_run_start(w)
    \/ worker_run_wait(w)
    \/ worker_run_donePush(w)
    \/ worker_run_pop(w)
    \/ worker_run_post(w)
    \/ worker_run_countDown(w)

\* The pool with a task function that offers event times.
Init ==
    /\ \E n \in 1..MaxOfferWorkers, p \in 1..MaxParallel : InitPool(n, p)
    /\ NetIdle

Next ==
    \/ Coordinator
    \/ \E w \in Workers : WorkerProgress(w)
    \/ \E w \in Workers, t \in Times : worker_setMinEventTimeNextRound(w, t)

Spec == Init /\ [][Next]_vars

\* The pool with a task function that touches no pool state.
PoolInit ==
    /\ \E n \in 1..MaxWorkers, p \in 1..MaxParallel : InitPool(n, p)
    /\ NetIdle

PoolNext ==
    \/ workerpool_startTaskFn_noOffers
    \/ CoordinatorSteps
    \/ \E w \in Workers : WorkerProgress(w)

PoolSpec == PoolInit /\ [][PoolNext]_vars

\* ============================================================== properties
\* Worker w has been woken (its begin semaphore posted, or it is past
\* sem_wait) and has not yet called lps_donePush.
Woken(w) == sems[w] > 0 \/ pc[w] = "task"

\* Worker w has been popped by a thread that has not posted it yet.
Held(w) ==
    \/ cpc = "dispatch_post" /\ cw = w
    \/ \E x \in Workers : pc[x] = "post" /\ wNext[x] = w

\* Number of occurrences of w in the queue q.
Occurrences(q, w) == Cardinality({k \in 1..Len(q) : q[k] = w})

RECURSIVE SumOver(_, _)
SumOver(f, S) ==
    IF S = {} THEN 0
    ELSE LET x == CHOOSE y \in S : TRUE IN f[x] + SumOver(f, S \ {x})

\* The pool has been constructed (workerpool_new has returned).
Constructed == cpc \notin {"new_await", "new_assign"}

HomeLp(w) == w % Min(nParallel, nWorkers)

\* C1 (exclusive-LP invariant): for every logical processor i, at most one
\* worker has been woken to run on i and has not yet called donePush, and no
\* worker holds more than one wake-up.
C1_ExclusiveLP ==
    /\ \A i \in LPs : Cardinality({w \in Workers : Woken(w) /\ idxs[w] = i}) <= 1
    /\ \A w \in Workers : sems[w] <= 1 /\ ~(sems[w] > 0 /\ pc[w] = "task")

\* A worker stolen from its home LP runs while another LP is busy too.
C1_Witness ==
    \E w1 \in Workers, w2 \in Workers :
        /\ pc[w1] = "task" /\ pc[w2] = "task"
        /\ idxs[w1] # idxs[w2]
        /\ idxs[w2] # HomeLp(w2)

\* C2 (parallelism cap): the number of workers between reading taskFn after
\* sem_wait and calling donePush never exceeds min(nWorkers, nParallel).
C2_ParallelismCap ==
    Cardinality({w \in Workers : pc[w] = "task"}) <= Min(nWorkers, nParallel)

\* The cap is reached in a pool with more workers than parallelism.
C2_Witness ==
    /\ nParallel < nWorkers
    /\ taskFn # "NULL"
    /\ Cardinality({w \in Workers : pc[w] = "task"}) = nParallel

\* C3 (worker conservation): once the pool is constructed every worker id is
\* in exactly one place: one ready queue, one done queue, or popped and
\* running (held by its popper, posted, or executing).
C3_WorkerConservation ==
    Constructed =>
        \A w \in Workers :
            SumOver([i \in LPs |-> Occurrences(ready[i], w) + Occurrences(done[i], w)], LPs)
              + sems[w]
              + (IF pc[w] = "task" THEN 1 ELSE 0)
              + (IF cpc = "dispatch_post" /\ cw = w THEN 1 ELSE 0)
              + Cardinality({x \in Workers : pc[x] = "post" /\ wNext[x] = w})
            = 1

\* A worker has been stolen and sits in the done queue of the stealing LP
\* while another worker is held by its popper.
C3_Witness ==
    /\ \E w \in Workers, i \in LPs :
        Occurrences(done[i], w) = 1 /\ i # HomeLp(w)
    /\ \E w \in Workers : Held(w)

\* C4 (latch conservation): countDown never finds the count at zero; every
\* worker counts down at most once between two resets; the count is N minus
\* the countDowns made; whenever the coordinator can pass its await (and so
\* reset) all N workers have counted down; outside construction and rounds
\* the latch is fully armed.
C4_LatchConservation ==
    /\ ~aborted
    /\ latch >= 0
    /\ \A w \in Workers : cdCount[w] \in {0, 1}
    /\ latch + SumOver(cdCount, Workers) = nWorkers
    /\ (cpc \in {"new_await", "await"} /\ latch = 0) =>
            \A w \in Workers : cdCount[w] = 1
    /\ cpc \in {"new_assign", "idle", "join", "joined", "freed"} => latch = nWorkers

\* A round's await is about to return in a pool with a stolen worker.
C4_Witness ==
    /\ cpc = "await"
    /\ latch = 0
    /\ nWorkers > 1
    /\ \E w \in Workers : ranOn[w] # HomeLp(w)

\* C5 (exactly-once execution): in a round with a non-null task function no
\* worker invokes it twice, and when awaitTaskFn can return every worker has
\* invoked it exactly once.
C5_ExactlyOnce ==
    /\ \A w \in Workers : execCount[w] <= 1
    /\ (cpc = "await" /\ ~inJoin /\ latch = 0) =>
            \A w \in Workers : execCount[w] = 1
    /\ inJoin => \A w \in Workers : execCount[w] = 0

\* A round completes in which the dispatch loop broke early: some LP never
\* had its idle timer stopped by the coordinator, yet all workers ran.
C5_Witness ==
    /\ cpc = "await" /\ ~inJoin /\ latch = 0
    /\ nWorkers > 1
    /\ \A w \in Workers : execCount[w] = 1 /\ ranOn[w] = 0
    /\ nLogicalProcessors > 1

\* The steps the coordinator takes without a decision of its caller: the
\* rest of workerpool_new, of a dispatch, of an await and of joinAll.
CoordinatorProgress ==
    \/ workerpool_new_await
    \/ workerpool_new_assign
    \/ startTaskFn_pop
    \/ startTaskFn_post
    \/ workerpool_awaitTaskFn
    \/ workerpool_joinAll_join

\* Fair scheduling of the threads: a thread that can take a step of its code
\* eventually takes it.  The task function returns (worker_run_donePush is a
\* step of WorkerProgress).
FairPoolSpec ==
    /\ PoolSpec
    /\ WF_vars(CoordinatorProgress)
    /\ \A w \in 0..(MaxWorkers - 1) : WF_vars(w \in Workers /\ WorkerProgress(w))

\* A round is in flight: startTaskFn has been called with a non-null task
\* function and the matching awaitTaskFn has not returned.
RoundInFlight == cpc \in {"dispatch_pop", "dispatch_post", "await"} /\ ~inJoin

\* C6 (round termination): under fair scheduling, with a task function that
\* returns, every round that is started is completed: awaitTaskFn returns
\* and the coordinator is back between rounds, ready for the next one.
C6_RoundTermination == RoundInFlight ~> (cpc = "idle" /\ taskFn = "NULL")

\* Two workers on one LP have completed a round, one after the other, and
\* the coordinator is between rounds again.
C6_Witness ==
    /\ cpc = "idle"
    /\ nWorkers > nParallel
    /\ \A w \in Workers : execCount[w] = 1 /\ pc[w] = "wait"

\* C7 (shutdown): under fair scheduling joinAll returns; when it has, every
\* worker thread has left its run loop; a worker leaves its run loop only in
\* the shutdown round, with a null task function read, and a worker that
\* read a null task function leaves it at its countDown.
C7_Shutdown ==
    /\ inJoin ~> joined
    /\ [](joined => \A w \in Workers : pc[w] = "exited")
    /\ [](\A w \in Workers : pc[w] = "exited" => (inJoin \/ joined) /\ wTaskFn[w] = "NULL")
    /\ [][\A w \in Workers :
            /\ (pc[w] # "exited" /\ pc'[w] = "exited") => wTaskFn[w] = "NULL"
            /\ (pc[w] = "countDown" /\ pc'[w] # "countDown" /\ wTaskFn[w] = "NULL")
                    => pc'[w] = "exited"
            /\ (pc[w] = "countDown" /\ pc'[w] # "countDown" /\ wTaskFn[w] # "NULL")
                    => pc'[w] = "wait"]_vars

\* joinAll has returned on a pool of several workers, each of which went
\* through the shutdown round without invoking a task function.
C7_Witness ==
    /\ joined
    /\ nWorkers > 1
    /\ \A w \in Workers : pc[w] = "exited" /\ execCount[w] = 0 /\ ranOn[w] >= 0

\* awaitTaskFn has returned and no new dispatch has begun.
AwaitReturned == cpc \in {"idle", "join", "joined", "freed"}

\* C8 (await postcondition): when awaitTaskFn has returned every done queue
\* is empty, no worker is woken, held or running, the task function and data
\* slots are null, and every worker is exactly once in the ready queue of
\* the LP recorded in workerLogicalProcessorIdxs, in no other queue, and that
\* LP is the one it last called donePush on.
C8_AwaitPostcondition ==
    AwaitReturned =>
        /\ \A i \in LPs : done[i] = <<>>
        /\ \A w \in Workers :
            /\ ~Woken(w) /\ ~Held(w)
            /\ pc[w] \in {"wait", "exited"}
            /\ idxs[w] \in LPs
            /\ \A i \in LPs :
                Occurrences(ready[i], w) = (IF i = idxs[w] THEN 1 ELSE 0)
            /\ ranOn[w] # -1 => ranOn[w] = idxs[w]
        /\ taskFn = "NULL"
        /\ taskData = "NULL"

\* After a round, a worker that was stolen stays on the stealing LP.
C8_Witness ==
    /\ cpc = "idle"
    /\ \E w \in Workers :
        /\ ranOn[w] # -1
        /\ ranOn[w] # HomeLp(w)
        /\ Occurrences(ready[ranOn[w]], w) = 1

\* C9 (global next-event-time reduction): a call to getGlobalNextEventTime
\* between rounds returns the least time offered with t >= roundEndTime since
\* the previous call (SIMTIME_MAX when there was none) and leaves every slot
\* at SIMTIME_MAX; a call right after it returns SIMTIME_MAX.  Between
\* rounds the slots always hold exactly that least time.
C9_GlobalNextEventTime ==
    /\ scanned =>
        /\ nextEventTime = expectedTime
        /\ \A i \in LPs : minEventTimes[i] = SIMTIME_MAX
    /\ rescanned => nextEventTime = SIMTIME_MAX
    /\ \A i \in LPs : minEventTimes[i] >= offeredMin
    /\ offeredMin < SIMTIME_MAX => \E i \in LPs : minEventTimes[i] = offeredMin

\* A call returned an offered time after a round in which a worker had
\* migrated away from its home LP.
C9_Witness ==
    /\ scanned /\ ~rescanned
    /\ nextEventTime < SIMTIME_MAX
    /\ nLogicalProcessors > 1
    /\ \E w \in Workers : ranOn[w] # -1 /\ ranOn[w] # HomeLp(w)

\* C10 (round-filter law): a call of setMinEventTimeNextRound(t) with
\* t < roundEndTime changes no slot; a call with t >= roundEndTime changes at
\* most the slot of the caller's current LP, which becomes min(slot, t).
C10_RoundFilter ==
    [][\A w \in Workers, t \in Times :
        worker_setMinEventTimeNextRound(w, t) =>
            IF t < roundEndTime
            THEN minEventTimes' = minEventTimes
            ELSE minEventTimes' =
                    [minEventTimes EXCEPT ![idxs[w]] = Min(minEventTimes[idxs[w]], t)]
      ]_vars

\* The latest offer was filtered out while a slot holds an earlier, accepted
\* offer that is above the filtered time's round end.
C10_Witness ==
    /\ filteredOffer
    /\ \E i \in LPs : minEventTimes[i] < SIMTIME_MAX /\ minEventTimes[i] >= roundEndTime
    /\ \E w \in Workers : pc[w] = "task"

\* ================================================ misuse of the pool's API
\* The pool driven by a caller that may also dispatch while a task is in
\* flight.
MisuseNext ==
    \/ PoolNext
    \/ workerpool_startTaskFn_inFlight

MisuseSpec == PoolInit /\ [][MisuseNext]_vars

\* C11: a startTaskFn made after a startTaskFn with a non-null function and
\* before the matching awaitTaskFn aborts on the assertion that the slot is
\* empty, leaving the task-function and task-data slots as they were and
\* posting no semaphore; a non-empty slot is never overwritten, only emptied;
\* whenever the coordinator is between rounds the slot is empty, and a
\* startTaskFn made then is accepted and stores its function.
C11_DispatchInFlightFatal ==
    /\ [][/\ (cpc = "await" /\ ~inJoin /\ (aborted' \/ taskFn' \notin {taskFn, "NULL"}))
              => /\ aborted'
                 /\ taskFn' = taskFn
                 /\ taskData' = taskData
                 /\ sems' = sems
                 /\ cpc' = cpc
          /\ (taskFn # "NULL" /\ taskFn' # taskFn) => taskFn' = "NULL"
          /\ (cpc = "idle" /\ cpc' = "dispatch_pop" /\ ~inJoin')
              => ~aborted' /\ taskFn' = "f"]_vars
    /\ [](cpc = "idle" => taskFn = "NULL" /\ taskData = "NULL")
    /\ [](aborted => taskFn = "f" /\ taskData = "data")

\* The second dispatch has aborted while a worker of the first was still
\* running its task and another had not been woken yet.
C11_Witness ==
    /\ aborted
    /\ taskFn = "f"
    /\ \E w \in Workers : pc[w] = "task"
    /\ \E w \in Workers : pc[w] = "wait" /\ sems[w] = 0 /\ execCount[w] = 0

\* ===================================== event scheduling by a running task
\* worker_runEvent, up to event_execute: the event's time becomes the
\* worker's current time.
worker_runEvent_begin(t) ==
    /\ ~aborted
    /\ currentTime = SIMTIME_INVALID
    /\ currentTime' = t
    /\ UNCHANGED <<schedulerRunning, netCall, pushed, packetStatus, draws,
                   returned, aborted>>
    /\ UNCHANGED poolVars

\* worker_runEvent, after event_execute.
worker_runEvent_end ==
    /\ ~aborted
    /\ currentTime # SIMTIME_INVALID
    /\ currentTime' = SIMTIME_INVALID
    /\ UNCHANGED <<schedulerRunning, netCall, pushed, packetStatus, draws,
                   returned, aborted>>
    /\ UNCHANGED poolVars

\* The manager ends the simulation: manager_schedulerIsRunning turns false.
manager_schedulerStop ==
    /\ ~aborted
    /\ schedulerRunning
    /\ schedulerRunning' = FALSE
    /\ UNCHANGED <<currentTime, netCall, pushed, packetStatus, draws,
                   returned, aborted>>
    /\ UNCHANGED poolVars

\* worker_scheduleTask(task, host, nanoDelay), called while an event executes;
\* accepted is what scheduler_push answers.
worker_scheduleTask(host, nanoDelay, accepted) ==
    /\ ~aborted
    /\ currentTime # SIMTIME_INVALID
    /\ netCall' = [netCall EXCEPT !.now = currentTime,
                                  !.running = schedulerRunning]
    /\ IF ~scheduleTask_gate(schedulerRunning)
       THEN /\ returned' = "FALSE"
            /\ pushed' = <<>>
       ELSE /\ pushed' = <<scheduleTask_event(currentTime, nanoDelay, host)>>
            /\ returned' = IF accepted THEN "TRUE" ELSE "FALSE"
    /\ packetStatus' = {}
    /\ draws' = 0
    /\ UNCHANGED <<schedulerRunning, currentTime, aborted>>
    /\ UNCHANGED poolVars

\* worker_sendPacket(srcHost, packet), called while an event executes.  The
\* packet carries srcIP, dstIP and payloadLength; bootstrapping, reliability,
\* chance and latency are what worker_isBootstrapActive, topology_getReliability,
\* random_nextDouble and topology_getLatency answer.
worker_sendPacket(srcHost, srcIP, dstIP, payloadLength, bootstrapping, reliability, chance, latency) ==
    /\ ~aborted
    /\ currentTime # SIMTIME_INVALID
    /\ netCall' = [netCall EXCEPT !.now = currentTime,
                                  !.running = schedulerRunning]
    /\ returned' = "void"
    /\ IF ~schedulerRunning
       THEN /\ pushed' = <<>>
            /\ packetStatus' = {}
            /\ draws' = 0
            /\ UNCHANGED aborted
       ELSE IF \/ IsNullAddress(worker_resolveIPToAddress(srcIP))
               \/ IsNullAddress(worker_resolveIPToAddress(dstIP))
       THEN /\ aborted' = TRUE
            /\ pushed' = <<>>
            /\ packetStatus' = {}
            /\ draws' = 0
       ELSE /\ draws' = 1
            /\ UNCHANGED aborted
            /\ IF sendPacket_delivers(bootstrapping, chance, reliability,
                                      payloadLength)
               THEN /\ packetStatus' = {"PDS_INET_SENT"}
                    /\ pushed' =
                        <<sendPacket_event(
                            currentTime + sendPacket_delay(latency), srcHost,
                            scheduler_getHost(worker_resolveIPToAddress(dstIP)))>>
               ELSE /\ packetStatus' = {"PDS_INET_DROPPED"}
                    /\ pushed' = <<>>
    /\ UNCHANGED <<schedulerRunning, currentTime>>
    /\ UNCHANGED poolVars

\* The task of the executing event makes its call.
task_scheduleTask ==
    /\ netCall.op = "scheduleTask"
    /\ returned = "none"
    /\ worker_scheduleTask(netCall.host, netCall.nanoDelay, netCall.accepted)

task_sendPacket ==
    /\ netCall.op = "sendPacket"
    /\ returned = "none"
    /\ worker_sendPacket(netCall.host, netCall.srcIP, netCall.dstIP,
                         netCall.payloadLength, netCall.bootstrapping,
                         netCall.reliability, netCall.chance, netCall.latency)

\* One worker thread executing events; one of them makes a call.
NetNext ==
    \/ \E t \in Times : worker_runEvent_begin(t)
    \/ worker_runEvent_end
    \/ manager_schedulerStop
    \/ task_scheduleTask
    \/ task_sendPacket

\* The call and the answers of its collaborators range over all values.
NetInit ==
    /\ InitPool(1, 1)
    /\ schedulerRunning = TRUE
    /\ currentTime = SIMTIME_INVALID
    /\ netCall \in SendPacketCalls \cup ScheduleTaskCalls
    /\ pushed = <<>>
    /\ packetStatus = {}
    /\ draws = 0
    /\ returned = "none"

NetSpec == NetInit /\ [][NetNext]_vars

\* The call has been made.
Called == returned # "none"

\* The latest call was a worker_sendPacket made while the scheduler was
\* running, for a packet whose source and destination IPs both resolve.
SendPacketRan ==
    /\ netCall.op = "sendPacket"
    /\ Called
    /\ netCall.running
    /\ netCall.srcIP \in Hosts
    /\ netCall.dstIP \in Hosts

\* C12: for every sendPacket made while the scheduler is running with both
\* addresses resolving, either the packet gets status SENT and exactly one
\* event is pushed, or it gets status DROPPED and none is pushed; the first
\* happens iff bootstrapping or draw <= reliability or payload length = 0;
\* with reliability 0, a non-empty payload and no bootstrapping the packet is
\* DROPPED and nothing is pushed; with reliability 0 and an empty payload the
\* packet is delivered.
C12_DeliveryDecision ==
    SendPacketRan =>
        /\ \/ packetStatus = {"PDS_INET_SENT"} /\ Len(pushed) = 1
           \/ packetStatus = {"PDS_INET_DROPPED"} /\ Len(pushed) = 0
        /\ packetStatus = {"PDS_INET_SENT"}
            <=> \/ netCall.bootstrapping
                \/ netCall.chance <= netCall.reliability
                \/ netCall.payloadLength = 0
        /\ (netCall.reliability = 0 /\ netCall.payloadLength > 0
                /\ ~netCall.bootstrapping)
            => packetStatus = {"PDS_INET_DROPPED"} /\ Len(pushed) = 0
        /\ (netCall.reliability = 0 /\ netCall.payloadLength = 0)
            => packetStatus = {"PDS_INET_SENT"} /\ Len(pushed) = 1

\* The least whole number of nanoseconds that is not below latency units.
CeilNanos(latency) ==
    CHOOSE d \in 0..latency :
        /\ d * LatencyResolution >= latency
        /\ (d - 1) * LatencyResolution < latency

\* C13: with reliability 1.0, a send made while the scheduler is running with
\* both addresses resolving pushes exactly one event, from the source host to
\* the destination host, at the sender's current time plus the latency
\* rounded up to whole nanoseconds.
C13_DeliveryLaw ==
    (SendPacketRan /\ netCall.reliability = ProbSteps) =>
        pushed = <<[time |-> netCall.now + CeilNanos(netCall.latency),
                    src |-> netCall.host,
                    dst |-> netCall.dstIP]>>

\* A data packet sent outside bootstrapping to another host at a non-zero
\* time over a fully reliable path whose latency is not a whole number of
\* nanoseconds, with the largest possible draw.
C13_Witness ==
    /\ SendPacketRan
    /\ netCall.reliability = ProbSteps
    /\ netCall.chance = ProbSteps
    /\ netCall.payloadLength > 0
    /\ ~netCall.bootstrapping
    /\ netCall.host # netCall.dstIP
    /\ netCall.now > 0
    /\ netCall.latency > LatencyResolution
    /\ netCall.latency % LatencyResolution # 0
    /\ Len(pushed) = 1

C15_SchedulerNotRunning ==
    /\ (Called /\ ~netCall.running) =>
        /\ pushed = <<>>
        /\ packetStatus = {}
        /\ draws = 0
        /\ ~aborted
        /\ netCall.op = "scheduleTask" => returned = "FALSE"
        /\ netCall.op = "sendPacket" => returned = "void"
    /\ (Called /\ netCall.running /\ netCall.op = "scheduleTask") =>
        /\ pushed = <<[time |-> netCall.now + netCall.nanoDelay,
                       src |-> netCall.host,
                       dst |-> netCall.host]>>
        /\ returned = (IF netCall.accepted THEN "TRUE" ELSE "FALSE")
        /\ packetStatus = {}

\* scheduleTask was refused after the simulation ended, for a task the
\* scheduler would have accepted.
C15_Witness ==
    /\ Called
    /\ netCall.op = "scheduleTask"
    /\ ~netCall.running
    /\ netCall.accepted
    /\ netCall.nanoDelay > 0
    /\ returned = "FALSE"
    /\ pushed = <<>>

\* C16: every _workerpool_setLogicalProcessorIdx(w, i) has 0 <= i < L, leaves
\* workerLogicalProcessorIdxs[w] = i and calls the affinity API with w's
\* native thread id, new CPU lps_cpuId(i) and old CPU lps_cpuId of w's
\* previous index, or AFFINITY_UNINIT exactly on w's first bind (made by the
\* constructor after its latch await, when every worker has set its index to
\* -1 and published its native thread id); a woken worker is pinned to the
\* CPU of the LP it is about to run on.
C16_AffinityConsistency ==
    /\ [][affinityCall' # NoAffinityCall =>
            LET call == affinityCall'
                w == call.workerID
            IN  /\ w \in Workers
                /\ call.logicalProcessorIdx \in LPs
                /\ idxs'[w] = call.logicalProcessorIdx
                /\ call.tid = gettid(w)
                /\ call.newCpuId = lps_cpuId(call.logicalProcessorIdx)
                /\ call.oldCpuId = AFFINITY_UNINIT <=> cpc = "new_assign"
                /\ cpc = "new_assign" =>
                    /\ idxs[w] = -1
                    /\ threadCpu[w] = AFFINITY_UNINIT
                /\ cpc # "new_assign" =>
                    /\ idxs[w] \in LPs
                    /\ call.oldCpuId = lps_cpuId(idxs[w])
                    /\ call.oldCpuId = threadCpu[w]
                /\ threadCpu'[w] = call.newCpuId
                /\ sems[w] = 0 /\ sems'[w] = 0]_vars
    /\ [](cpc # "new_await" =>
            \A w \in Workers : workerNativeThreadIDs[w] = gettid(w))
    /\ [](cpc = "new_await" =>
            \A w \in Workers : threadCpu[w] = AFFINITY_UNINIT /\ idxs[w] \in {0, -1})
    /\ [](\A w \in Workers :
            Woken(w) => idxs[w] \in LPs /\ threadCpu[w] = lps_cpuId(idxs[w]))

\* A worker has just been stolen: the latest step rebound it from the CPU of
\* its previous LP to the CPU of another LP, and it has not been posted yet.
C16_Witness ==
    /\ affinityCall # NoAffinityCall
    /\ affinityCall.oldCpuId # AFFINITY_UNINIT
    /\ affinityCall.oldCpuId # affinityCall.newCpuId
    /\ \E x \in Workers : pc[x] = "post" /\ wNext[x] = affinityCall.workerID
    /\ sems[affinityCall.workerID] = 0

\* Worker w may write minEventTimes[i]: it is executing the task function on
\* LP i (woken, past sem_wait, not yet at lps_donePush).
SlotWriter(w, i) == pc[w] = "task" /\ wTaskFn[w] # "NULL" /\ idxs[w] = i

\* Worker w is between its wake-up and its countDown.
InRound(w) == sems[w] > 0 \/ pc[w] \in {"task", "pop", "post", "countDown"}

\* The least value held in any slot of minEventTimes.
LeastSlot ==
    CHOOSE m \in {minEventTimes[i] : i \in LPs} :
        \A i \in LPs : m <= minEventTimes[i]

\* C17: at most one thread can write minEventTimes[i], the worker executing
\* on LP i, whose slot stays the same while it executes; the coordinator
\* reads and resets the slots only while no worker is between wake-up and
\* countDown; every change of a slot is such a write or such a reset, and the
\* slots always hold the least time accepted since the last reset (no write
\* is lost).
C17_MinEventTimesRaceFree ==
    /\ [](\A i \in LPs : Cardinality({w \in Workers : SlotWriter(w, i)}) <= 1)
    /\ [](cpc = "idle" => \A w \in Workers : ~InRound(w) /\ ~Held(w))
    /\ [](LeastSlot = offeredMin)
    /\ [][/\ \A w \in Workers :
                (pc[w] = "task" /\ pc'[w] = "task") => idxs'[w] = idxs[w]
          /\ minEventTimes' # minEventTimes =>
                \/ /\ cpc = "idle"
                   /\ \A w \in Workers : ~InRound(w)
                   /\ \A i \in LPs : minEventTimes'[i] = SIMTIME_MAX
                \/ \E w \in Workers :
                    /\ SlotWriter(w, idxs[w])
                    /\ minEventTimes'[idxs[w]] < minEventTimes[idxs[w]]
                    /\ \A i \in LPs \ {idxs[w]} :
                        minEventTimes'[i] = minEventTimes[i]]_vars

\* Two workers execute at once on different LPs, each having lowered the
\* slot of its own LP.
C17_Witness ==
    /\ \E w1, w2 \in Workers :
        /\ w1 # w2
        /\ SlotWriter(w1, idxs[w1])
        /\ SlotWriter(w2, idxs[w2])
        /\ idxs[w1] # idxs[w2]
    /\ \A i \in LPs : minEventTimes[i] < SIMTIME_MAX
    /\ nLogicalProcessors > 1

\* C18: the taskFn / taskData slots change only in a step of the coordinator
\* taken while no worker is between its wake-up and its countDown; the slot
\* is non-null exactly between a startTaskFn and the matching awaitTaskFn;
\* every worker past its sem_wait holds the function dispatched for the
\* current round (the task function in a task round, null in the shutdown
\* round), which is still the one in the slot, with its data.
C18_TaskSlotDiscipline ==
    /\ [][(taskFn' # taskFn \/ taskData' # taskData) =>
            /\ cpc \in {"idle", "await"}
            /\ cpc' # cpc
            /\ \A w \in Workers :
                /\ ~InRound(w) /\ ~Held(w)
                /\ pc'[w] = pc[w] /\ wTaskFn'[w] = wTaskFn[w]]_vars
    /\ [](taskFn # "NULL" <=> RoundInFlight)
    /\ [](RoundInFlight => taskFn = "f" /\ taskData = "data")
    /\ [](~RoundInFlight => taskData = "NULL")
    /\ [](\A w \in Workers :
            pc[w] \in {"task", "pop", "post", "countDown"} =>
                /\ wTaskFn[w] = taskFn
                /\ wTaskFn[w] = (IF inJoin THEN "NULL" ELSE "f"))

\* In the shutdown round, a worker that ran the task function in an earlier
\* round has read the null function while another has not been woken yet.
C18_Witness ==
    /\ inJoin
    /\ cpc \in {"dispatch_pop", "dispatch_post", "await"}
    /\ \E w \in Workers :
        pc[w] = "task" /\ wTaskFn[w] = "NULL" /\ ranOn[w] # -1
    /\ \E w \in Workers : pc[w] = "wait" /\ wTaskFn[w] = "f"

\* The threads that are at a call of lps_popWorkerToRunOn for LP i: the
\* coordinator at the pop of its dispatch loop, a worker between its
\* lps_donePush and the return of its pop.
CoordinatorPops(i) == cpc = "dispatch_pop" /\ ci = i
WorkerPops(w, i) == pc[w] = "pop" /\ wLpi[w] = i
Poppers(i) ==
    (IF CoordinatorPops(i) THEN 1 ELSE 0)
        + Cardinality({w \in Workers : WorkerPops(w, i)})

\* C19: no two threads are at once inside popWorkerToRunOn for the same LP:
\* the coordinator pops LP i only while no worker has run on i in the round,
\* afterwards only the worker that was the last to donePush on i pops i; and
\* once the pool is constructed workerLogicalProcessorIdxs[w] is written only
\* in the step in which a thread obtains w from a pop, w's semaphore being
\* unposted before and after.
C19_PopContract ==
    /\ [](\A i \in LPs : Poppers(i) <= 1)
    /\ [](\A i \in LPs : CoordinatorPops(i) =>
            /\ done[i] = <<>>
            /\ \A w \in Workers : (InRound(w) \/ Held(w)) => idxs[w] # i)
    /\ [](\A i \in LPs : \A w \in Workers : WorkerPops(w, i) =>
            /\ done[i] # <<>>
            /\ done[i][Len(done[i])] = w
            /\ idxs[w] = i)
    /\ [][\A w \in Workers :
            (Constructed /\ idxs'[w] # idxs[w]) =>
                /\ \/ CoordinatorPops(idxs'[w]) /\ cpc' = "dispatch_post" /\ cw' = w
                   \/ \E x \in Workers :
                        /\ WorkerPops(x, idxs'[w])
                        /\ pc'[x] = "post"
                        /\ wNext'[x] = w
                /\ \E i \in LPs : ready[i] # <<>> /\ Head(ready[i]) = w
                /\ \A i \in LPs : Occurrences(ready'[i], w) = 0
                /\ pc[w] = "wait"
                /\ sems[w] = 0
                /\ sems'[w] = 0]_vars

\* The coordinator and a worker are at their pops at once, for different
\* LPs, with a single worker left in the ready queues for both to take.
C19_Witness ==
    /\ cpc = "dispatch_pop"
    /\ \E w \in Workers : pc[w] = "pop" /\ wLpi[w] # ci
    /\ Cardinality({i \in LPs : Poppers(i) = 1}) >= 2
    /\ SumOver([i \in LPs |-> Len(ready[i])], LPs) = 1

\* All ready queues are empty.
NoneReady == \A i \in LPs : ready[i] = <<>>

\* C20: a pop that finds no worker (the finishing worker's, or the one that
\* breaks the coordinator's dispatch loop) happens only when every ready
\* queue is empty; a worker finishing on an LP whose own ready queue is empty
\* while another is not takes the head of another LP's queue, sets that
\* worker's index to its own LP and then posts its semaphore; a worker popped
\* for an LP keeps that index until its donePush, which goes to that LP's
\* done queue.
C20_WorkConservingStealing ==
    /\ [][\A w \in Workers : (pc[w] = "pop" /\ pc'[w] = "post") =>
            /\ wNext'[w] = -1 => NoneReady
            /\ (ready[wLpi[w]] = <<>> /\ ~NoneReady) =>
                /\ wNext'[w] \in Workers
                /\ \E j \in LPs \ {wLpi[w]} :
                    /\ ready[j] # <<>>
                    /\ wNext'[w] = Head(ready[j])
                    /\ ready'[j] = Tail(ready[j])
                /\ idxs'[wNext'[w]] = wLpi[w]]_vars
    /\ [][(cpc = "dispatch_pop" /\ cpc' = "await") => NoneReady]_vars
    /\ [][\A w \in Workers :
            (pc[w] = "post" /\ pc'[w] = "countDown" /\ wNext[w] >= 0) =>
                /\ sems'[wNext[w]] = sems[wNext[w]] + 1
                /\ idxs[wNext[w]] = wLpi[w]]_vars
    /\ [][\A x \in Workers :
            /\ (Held(x) \/ Woken(x)) /\ pc'[x] # "pop" => idxs'[x] = idxs[x]
            /\ (pc[x] = "task" /\ pc'[x] = "pop") =>
                /\ done'[idxs[x]] = Append(done[idxs[x]], x)
                /\ wLpi'[x] = idxs[x]]_vars

\* A worker that was taken from the ready queue of the LP the constructor
\* gave it has run on the LP that took it and stands in that LP's done queue,
\* the round still being in flight.
C20_Witness ==
    /\ RoundInFlight
    /\ \E x \in Workers :
        /\ ranOn[x] # -1
        /\ ranOn[x] # HomeLp(x)
        /\ idxs[x] = ranOn[x]
        /\ Occurrences(done[ranOn[x]], x) = 1
        /\ execCount[x] = 1

\* C21: the idle-timer calls of every LP alternate, starting with a stop: in
\* each round an LP gets no call, a stop, or a stop followed by one continue,
\* its timer being stopped exactly after an unanswered stop, and running
\* again at every await; the stop is made by the coordinator before it posts
\* the first worker for that LP, the timer is stopped whenever a worker is
\* woken for, running on or finishing on the LP, and the continue is made by
\* the last worker to finish on it; when the round is over an LP has had
\* both calls if a worker ran on it and neither otherwise.
C21_IdleTimer ==
    /\ [](\A i \in LPs :
            /\ idleCalls[i] \in {<<>>, <<"stop">>, <<"stop", "continue">>}
            /\ idleStopped[i] <=> idleCalls[i] = <<"stop">>)
    /\ [](\A w \in Workers :
            /\ (Woken(w) \/ (\E x \in Workers : pc[x] = "post" /\ wNext[x] = w))
                => idleStopped[idxs[w]]
            /\ pc[w] \in {"pop", "post"} => idleStopped[wLpi[w]])
    /\ []((cpc = "await" /\ latch = 0) =>
            \A i \in LPs :
                idleCalls[i] = IF done[i] # <<>>
                               THEN <<"stop", "continue">> ELSE <<>>)
    /\ [](cpc \notin {"dispatch_pop", "dispatch_post", "await"} =>
            \A i \in LPs : ~idleStopped[i] /\ idleCalls[i] = <<>>)
    /\ [][\A i \in LPs :
            /\ (Len(idleCalls'[i]) > Len(idleCalls[i])
                    /\ idleCalls'[i][Len(idleCalls'[i])] = "stop") =>
                /\ cpc = "dispatch_post" /\ ci = i
                /\ idxs[cw] = i
                /\ sems[cw] = 0 /\ sems'[cw] = 1
                /\ ~idleStopped[i] /\ idleStopped'[i]
            /\ (Len(idleCalls'[i]) > Len(idleCalls[i])
                    /\ idleCalls'[i][Len(idleCalls'[i])] = "continue") =>
                /\ idleStopped[i] /\ ~idleStopped'[i]
                /\ \E w \in Workers :
                    /\ pc[w] = "post" /\ pc'[w] = "countDown"
                    /\ wLpi[w] = i /\ wNext[w] = -1
                    /\ done[i][Len(done[i])] = w
                /\ NoneReady
                /\ \A x \in Workers : (Woken(x) \/ Held(x)) => idxs[x] # i]_vars

\* The round is over: one LP ran several workers back to back between its
\* stop and its continue, another ran none and got no call.
C21_Witness ==
    /\ cpc = "await"
    /\ latch = 0
    /\ \E i, j \in LPs :
        /\ Len(done[i]) >= 2
        /\ idleCalls[i] = <<"stop", "continue">>
        /\ done[j] = <<>>
        /\ idleCalls[j] = <<>>

\* ======================================================= the pool's lifecycle
\* workerpool_joinAll: utility_assert(!pool->joined).
workerpool_joinAll_assert_skipped(joinedFlag) == TRUE

workerpool_joinAll_assert(joinedFlag) == ~joinedFlag

\* workerpool_free: utility_assert(pool->joined).
workerpool_free_assert(joinedFlag) == joinedFlag

\* workerpool_startTaskFn: utility_assert(taskFn).
workerpool_startTaskFn_assert(fn) == fn # "NULL"

\* workerpool_joinAll called again on a pool whose threads were joined: the
\* assertion comes before _workerpool_startTaskFn(pool, NULL, NULL).
workerpool_joinAll_again ==
    /\ ~aborted
    /\ cpc = "joined"
    /\ IF workerpool_joinAll_assert(joined)
       THEN /\ inJoin' = TRUE
            /\ startTaskFn_store("NULL", "NULL")
       ELSE /\ aborted' = TRUE
            /\ UNCHANGED <<inJoin, taskFn, taskData, cpc, ci, execCount,
                           scanned, rescanned, nextEventTime, expectedTime>>
    /\ UNCHANGED <<nWorkers, nParallel, cw, pc, wTaskFn, wLpi, wNext, sems,
                   idxs, latch, joined, ready, done, idleStopped,
                   minEventTimes, roundEndTime, cdCount, ranOn, offeredMin,
                   filteredOffer>>
    /\ UNCHANGED netVars
    /\ NoAffinity
    /\ UNCHANGED idleCalls

\* workerpool_free called between rounds on a pool that was not joined: the
\* assertion comes before the first sem_destroy.
workerpool_free_unjoined ==
    /\ ~aborted
    /\ cpc = "idle"
    /\ IF workerpool_free_assert(joined)
       THEN /\ cpc' = "freed"
            /\ UNCHANGED aborted
       ELSE /\ aborted' = TRUE
            /\ UNCHANGED cpc
    /\ UNCHANGED <<nWorkers, nParallel, ci, cw, inJoin, pc, wTaskFn, wLpi,
                   wNext, sems, idxs, latch, taskFn, taskData, joined, ready,
                   done, idleStopped, minEventTimes, roundEndTime>>
    /\ UNCHANGED histVars
    /\ UNCHANGED netVars
    /\ NoAffinity
    /\ UNCHANGED idleCalls

\* workerpool_startTaskFn called between rounds with a null taskFn: the
\* assertion comes before _workerpool_startTaskFn.
workerpool_startTaskFn_null ==
    /\ ~aborted
    /\ cpc = "idle"
    /\ IF workerpool_startTaskFn_assert("NULL")
       THEN startTaskFn_store("NULL", "data")
       ELSE /\ aborted' = TRUE
            /\ UNCHANGED <<taskFn, taskData, cpc, ci, execCount, scanned,
                           rescanned, nextEventTime, expectedTime>>
    /\ UNCHANGED <<nWorkers, nParallel, cw, inJoin, pc, wTaskFn, wLpi, wNext,
                   sems, idxs, latch, joined, ready, done, idleStopped,
                   minEventTimes, roundEndTime, cdCount, ranOn, offeredMin,
                   filteredOffer>>
    /\ UNCHANGED netVars
    /\ NoAffinity
    /\ UNCHANGED idleCalls

\* The pool driven by a caller that may also call joinAll twice, free an
\* unjoined pool, or dispatch a null task function.
LifecycleNext ==
    \/ PoolNext
    \/ workerpool_joinAll_again
    \/ workerpool_free_unjoined
    \/ workerpool_startTaskFn_null

LifecycleSpec == PoolInit /\ [][LifecycleNext]_vars

\* What a dispatch or a release would change.
LifecycleCore == <<cpc, ci, inJoin, taskFn, taskData, sems, latch, ready, done, pc, joined, idleStopped>>

\* C22: joined is false from construction until joinAll has joined all N
\* threads, becomes true in the step that joins the last thread and is never
\* cleared; a joinAll on a joined pool, a free of an unjoined pool and a
\* public startTaskFn with a null function each abort with nothing
\* dispatched or released, so a null task function is only ever dispatched
\* by joinAll and a worker only exits during or after joinAll.
C22_Lifecycle ==
    /\ [](joined <=> cpc \in {"joined", "freed"})
    /\ [](taskFn = "NULL" /\ cpc \in {"dispatch_pop", "dispatch_post", "await"} => inJoin /\ ~joined)
    /\ [](\A w \in Workers : pc[w] = "exited" => inJoin \/ joined)
    /\ [][/\ joined => joined'
          /\ (~joined /\ joined')
              => /\ cpc = "join"
                 /\ ci = nWorkers - 1
                 /\ \A w \in Workers : pc[w] = "exited"
          /\ (~aborted /\ aborted') => UNCHANGED LifecycleCore
          /\ (cpc = "joined" /\ LifecycleCore' # LifecycleCore)
              => cpc' = "freed" /\ UNCHANGED <<taskFn, taskData, sems, joined>>
          /\ (cpc # "freed" /\ cpc' = "freed") => joined /\ cpc = "joined"
          /\ (cpc = "idle" /\ taskFn' # taskFn) => taskFn' = "f" \/ inJoin']_vars

\* A second joinAll has aborted on a joined pool: no null task was stored
\* for dispatch, no semaphore posted, every thread already exited.
C22_Witness ==
    /\ aborted
    /\ joined
    /\ cpc = "joined"
    /\ ~inJoin
    /\ \A w \in Workers : pc[w] = "exited" /\ sems[w] = 0
    /\ \E w \in Workers : ranOn[w] >= 0

\* ============================================================ per-LP order
\* The worker ids from, to - 1 in ascending order.
AscendingIds(from, to) == [k \in 1..(to - from) |-> from + k - 1]

\* The ids below n that are congruent to i modulo the number of LPs, in
\* ascending order.
ResidueQueue(i, n) == SelectSeq(AscendingIds(0, n), LAMBDA w : w % nLogicalProcessors = i)

\* No task has been dispatched since construction.
NeverDispatched == \A w \in Workers : ranOn[w] = -1

\* C23: construction appends worker w to the ready queue of LP w mod L in
\* ascending id order, and the finishTask of awaitTaskFn appends each LP's
\* done queue to its ready queue in order; with a single LP at most one
\* worker is woken or held at a time, worker w is woken only when exactly
\* the workers 0 .. w-1 have finished, in that order, and w+1 .. N-1 are
\* still ready, in that order; between wake-ups the two queues together
\* hold 0 .. N-1 in order, and when a round's latch has reached zero every
\* worker has executed the task exactly once.
C23_SerialOrder ==
    /\ [](cpc = "new_assign" => \A i \in LPs : ready[i] = ResidueQueue(i, ci))
    /\ [](cpc = "idle" /\ NeverDispatched
            => \A i \in LPs : ready[i] = ResidueQueue(i, nWorkers))
    /\ [][(cpc = "await" /\ cpc' # "await")
            => \A i \in LPs : ready'[i] = ready[i] \o done[i] /\ done'[i] = <<>>]_vars
    /\ []((nLogicalProcessors = 1 /\ Constructed)
            => /\ Cardinality({w \in Workers : Woken(w) \/ Held(w)}) <= 1
               /\ \A w \in Workers :
                    (Woken(w) \/ Held(w))
                        => /\ done[0] = AscendingIds(0, w)
                           /\ ready[0] = AscendingIds(w + 1, nWorkers)
               /\ (\A w \in Workers : ~Woken(w) /\ ~Held(w))
                    => /\ done[0] \o ready[0] = AscendingIds(0, nWorkers)
                       /\ (\A w \in Workers : pc[w] # "pop")
                            => done[0] = <<>> \/ ready[0] = <<>>
               /\ (cpc = "await" /\ latch = 0)
                    => /\ done[0] = AscendingIds(0, nWorkers)
                       /\ ~inJoin => \A w \in Workers : execCount[w] = 1)

\* A single LP with three workers, in a round after the first: worker 1
\* executes the task, worker 0 has finished and worker 2 is still ready.
C23_Witness ==
    /\ nParallel = 1
    /\ nWorkers = 3
    /\ \A w \in Workers : ranOn[w] = 0
    /\ ~inJoin
    /\ pc[1] = "task"
    /\ execCount[0] = 1 /\ execCount[1] = 1 /\ execCount[2] = 0
    /\ done[0] = <<0>>
    /\ ready[0] = <<2>>

====
